---- MODULE Spec2Model ----
(***************************************************************************)
(* Calibration diagnostics: the merge of per-run calibration rows into     *)
(* the persisted summary (calibration/merge_calibration_data.py) and the   *)
(* version ordering used by the report scripts.                            *)
(*                                                                         *)
(* Strings of the program (platform names, version tags) are sequences of  *)
(* one-character strings, so that trimming and version parsing are         *)
(* computed as the code computes them.                                     *)
(***************************************************************************)
EXTENDS Integers, Sequences, FiniteSets, TLC

\* ------------------------------------------------------------------------
\* Bounds of the model
\* ------------------------------------------------------------------------
MaxFiles == 2
MaxInitRows == 1
MaxRuns == 2
MaxReportRows == 2
MaxSquares == 3
MaxFrames == 2
MaxMissing == 3
MaxBuilds == 2

\* ------------------------------------------------------------------------
\* Strings
\* ------------------------------------------------------------------------
Whitespace == {" "}

Digits == {"0", "1", "2", "3", "4", "5", "6", "7", "8", "9"}

RECURSIVE LStrip(_)
LStrip(s) == IF s # <<>> /\ Head(s) \in Whitespace THEN LStrip(Tail(s)) ELSE s

RECURSIVE RStrip(_)
RStrip(s) ==
  IF s # <<>> /\ s[Len(s)] \in Whitespace THEN RStrip(SubSeq(s, 1, Len(s) - 1)) ELSE s

\* str.strip(): leading and trailing whitespace removed
StrStrip(s) == RStrip(LStrip(s))

current == <<"c", "u", "r", "r", "e", "n", "t">>

Windows == <<"W", "i", "n", "d", "o", "w", "s">>
Linux == <<"L", "i", "n", "u", "x">>
PaddedLinux == <<" ">> \o Linux \o <<" ">>

V_1_0_0 == <<"1", ".", "0", ".", "0">>

\* platform names as they may stand in a CSV file
OsStrings == {Windows, Linux, PaddedLinux}

\* version tags of the rows merged
MergeVersions == {current, V_1_0_0}

\* the square size the calibration is run with, in mm
charuco_square_size == 58

\* a mean is held exactly, as <<sum, count>>
RatMinus(q, k) == <<q[1] - k * q[2], q[2]>>

\* a float that is not a number
NaN == <<0, 0>>

\* equality of floats: NaN equals nothing
RatEq(p, q) == p[2] # 0 /\ q[2] # 0 /\ p[1] * q[2] = q[1] * p[2]

\* get_neighbor_stats, of distances given by their sum and their number:
\* the mean and its signed difference to the square size (the median and the
\* standard deviation are left out)
get_neighbor_stats(total, count, charuco_square_size_mm) ==
  [mean_distance |-> <<total, count>>,
   mean_error |-> RatMinus(<<total, count>>, charuco_square_size_mm)]

\* the statistics columns of a row, as one value: of one distance of 57 mm,
\* and of two distances of 58 mm and 61 mm
Stats ==
  {get_neighbor_stats(57, 1, charuco_square_size),
   get_neighbor_stats(119, 2, charuco_square_size)}

CsvRows == [os : OsStrings, version : MergeVersions, stat : Stats]

\* ------------------------------------------------------------------------
\* Data frames: sequences of rows
\* ------------------------------------------------------------------------
Key(r) == <<r.os, r.version>>

Keys(frame) == {Key(frame[i]) : i \in 1..Len(frame)}

RowSet(frame) == {frame[i] : i \in 1..Len(frame)}

UniqueKeys(frame) == \A i, j \in 1..Len(frame) : Key(frame[i]) = Key(frame[j]) => i = j

\* df["os"] = df["os"].str.strip()
StripOs(frame) == [i \in 1..Len(frame) |-> [frame[i] EXCEPT !.os = StrStrip(@)]]

\* the comparison turned round
IsCurrentTag(r) == r.version = current

IsNotCurrent(r) == r.version # current

\* the filter left out
DropNothing(frame) == frame

\* full_df[full_df["version"] != "current"]
DropCurrent(frame) == SelectSeq(frame, IsNotCurrent)

\* only the last frame read is taken
LastFrameOnly(frames) == IF frames = <<>> THEN <<>> ELSE frames[Len(frames)]

\* pd.concat(frames, ignore_index=True)
RECURSIVE PdConcat(_)
PdConcat(frames) ==
  IF frames = <<>> THEN <<>> ELSE Head(frames) \o PdConcat(Tail(frames))

\* the files of ./collected: a file either fails to be read or holds rows
IsReadable(f) == f.readable

\* the read loop stops after the first file
FirstFileOnly(files) ==
  LET ok == SelectSeq(files, IsReadable)
  IN IF ok = <<>> THEN <<>> ELSE <<ok[1].rows>>

ReadableFrames(files) ==
  LET ok == SelectSeq(files, IsReadable)
  IN [i \in 1..Len(ok) |-> ok[i].rows]

ArtifactFiles ==
  {[readable |-> FALSE, rows |-> <<>>], [readable |-> TRUE, rows |-> <<>>]}
    \cup {[readable |-> TRUE, rows |-> <<r>>] : r \in CsvRows}

SeqsUpTo(S, n) == UNION {[1..k -> S] : k \in 0..n}

CollectedDirs == SeqsUpTo(ArtifactFiles, MaxFiles)

NoFile == [exists |-> FALSE, rows |-> <<>>]

\* the kernel name of macOS: platform.system() as run() reads it
Darwin == <<"D", "a", "r", "w", "i", "n">>

\* the rows of a history: those of the artifacts, and rows that carry the
\* kernel name
HistoryRows == CsvRows \cup [os : {Darwin}, version : MergeVersions, stat : Stats]

InitialSummaries ==
  {NoFile} \cup {[exists |-> TRUE, rows |-> h] :
                   h \in {d \in SeqsUpTo(HistoryRows, MaxInitRows) : UniqueKeys(d)}}

\* ------------------------------------------------------------------------
\* Versions: packaging.version.parse on releases and release candidates
\* ------------------------------------------------------------------------
DigitValue ==
  [c \in Digits |->
     CASE c = "0" -> 0 [] c = "1" -> 1 [] c = "2" -> 2 [] c = "3" -> 3
       [] c = "4" -> 4 [] c = "5" -> 5 [] c = "6" -> 6 [] c = "7" -> 7
       [] c = "8" -> 8 [] c = "9" -> 9]

\* int(text) of a run of digits
RECURSIVE ParseInt(_)
ParseInt(text) ==
  IF text = <<>> THEN 0
  ELSE 10 * ParseInt(SubSeq(text, 1, Len(text) - 1)) + DigitValue[text[Len(text)]]

\* text.split("."): the pieces between the dots
RECURSIVE SplitDots(_)
SplitDots(text) ==
  IF \E i \in 1..Len(text) : text[i] = "."
    THEN LET d == CHOOSE i \in 1..Len(text) :
                    text[i] = "." /\ \A j \in 1..(i - 1) : text[j] # "."
         IN <<SubSeq(text, 1, d - 1)>> \o SplitDots(SubSeq(text, d + 1, Len(text)))
    ELSE <<text>>

IsDigitRun(text) == text # <<>> /\ \A i \in 1..Len(text) : text[i] \in Digits

\* what Version(...) raises InvalidVersion for
InvalidVersion == [valid |-> FALSE, release |-> <<>>, pre |-> <<>>]

\* the text before a pre-release tag, and the tag (from its "r") with its number
ReleasePart(text) ==
  IF \E i \in 1..Len(text) : text[i] = "r"
    THEN SubSeq(text, 1, (CHOOSE i \in 1..Len(text) :
                            text[i] = "r" /\ \A j \in 1..(i - 1) : text[j] # "r") - 1)
    ELSE text

PrePart(text) == SubSeq(text, Len(ReleasePart(text)) + 1, Len(text))

\* "rc" followed by digits (none counts as 0)
IsRcTag(tag) ==
  /\ Len(tag) >= 2
  /\ tag[1] = "r"
  /\ tag[2] = "c"
  /\ \A i \in 3..Len(tag) : tag[i] \in Digits

\* vparse, for the forms [v]N(.N)*[rcN] of a PEP 440 version: the release
\* tuple and the pre-release number; any other text is invalid
vparse(ver) ==
  LET text == StrStrip(ver)
      body == IF text # <<>> /\ Head(text) = "v" THEN Tail(text) ELSE text
      pieces == SplitDots(ReleasePart(body))
      tag == PrePart(body)
  IN IF (\A i \in 1..Len(pieces) : IsDigitRun(pieces[i])) /\ (tag = <<>> \/ IsRcTag(tag))
       THEN [valid |-> TRUE,
             release |-> [i \in 1..Len(pieces) |-> ParseInt(pieces[i])],
             pre |-> IF tag = <<>> THEN <<>> ELSE <<ParseInt(SubSeq(tag, 3, Len(tag)))>>]
       ELSE InvalidVersion

\* Version._key compares releases with their trailing zeros dropped
RECURSIVE DropTrailingZeros(_)
DropTrailingZeros(release) ==
  IF release # <<>> /\ release[Len(release)] = 0
    THEN DropTrailingZeros(SubSeq(release, 1, Len(release) - 1))
    ELSE release

\* tuple comparison of Python: first difference decides, a prefix is less
RECURSIVE TupleLess(_, _)
TupleLess(a, b) ==
  IF b = <<>> THEN FALSE
  ELSE IF a = <<>> THEN TRUE
  ELSE IF Head(a) # Head(b) THEN Head(a) < Head(b)
  ELSE TupleLess(Tail(a), Tail(b))

\* the pre-release part of Version._key: a final release sorts after its
\* release candidates
PreLess(p, q) == p # <<>> /\ (q = <<>> \/ p[1] < q[1])

\* Version.__lt__
VersionLess(x, y) ==
  LET a == DropTrailingZeros(x.release)
      b == DropTrailingZeros(y.release)
  IN TupleLess(a, b) \/ (a = b /\ PreLess(x.pre, y.pre))

V_9999_0_0 == <<"9", "9", "9", "9", ".", "0", ".", "0">>

CURRENT_SENTINEL == vparse(V_9999_0_0)

safe_parse(ver) == IF ver = current THEN CURRENT_SENTINEL ELSE vparse(ver)

V_1_9_0 == <<"1", ".", "9", ".", "0">>
V_1_10_0 == <<"1", ".", "1", "0", ".", "0">>
V_10000_0_0 == <<"1", "0", "0", "0", "0", ".", "0", ".", "0">>
V_1_10_0rc1 == <<"1", ".", "1", "0", ".", "0", "r", "c", "1">>
V_abc == <<"a", "b", "c">>

\* the dotted-numeric version tags of the rows reported
NumericVersions == {V_1_9_0, V_1_10_0, V_9999_0_0, V_10000_0_0}

\* version tags of the rows reported
ReportVersions == {current, V_1_10_0rc1, V_abc} \cup NumericVersions

\* str comparison of Python, by code point
CodePoint(c) ==
  CASE c = " " -> 32 [] c = "L" -> 76 [] c = "W" -> 87 [] c = "d" -> 100
    [] c = "i" -> 105 [] c = "n" -> 110 [] c = "o" -> 111 [] c = "s" -> 115
    [] c = "u" -> 117 [] c = "w" -> 119 [] c = "x" -> 120

StrCodes(text) == [i \in 1..Len(text) |-> CodePoint(text[i])]

StrLess(a, b) == TupleLess(StrCodes(a), StrCodes(b))

\* ------------------------------------------------------------------------
\* State
\* ------------------------------------------------------------------------
VARIABLES
  summary_csv,   \* the persisted history file
  collected,     \* the artifact files under ./collected
  pc,            \* position of the merge script
  full_df,       \* the script's full_df
  csv_files,     \* the script's csv_files
  rows,          \* the script's rows (frames read)
  new_df,        \* the script's new_df
  exit_status,   \* "running", then how the process ended
  runs,          \* merge runs started
  start_summary, \* the history file as it was when the run started
  saved,         \* this run has executed full_df.to_csv
  rerun,         \* this run reads the same ./collected as the previous run
  prev_saved,    \* the history file as the previous run saved it
  report_script, \* step 4 of the merge: "unreached", "absent" or "ran"
  script,        \* the report script that runs, "none" when none does
  report_pc,     \* position of the report script
  df,            \* the report script's df: the rows with their version_key
  series,        \* the traces of figure 1: one frame per platform
  latest,        \* the rows of the summary table
  report_html,   \* the report file has been written
  cwd_csv,       \* calibration_diagnostics_summary.csv of the working directory
  report_exit,   \* exit status of the report script, -1 while it runs
  board,         \* run: the board of the recording, in squares
  frame_no,      \* run: frames the extractor has taken
  frame_points,  \* run: the positions detected in the frame being taken
  frame_pairs,   \* run: the distances of that frame, -1 between frames
  distances,     \* run: the distances extracted so far
  run_pc,        \* position of run()
  calib_row,     \* the artifact file calib_row.csv
  calibration_folder, \* build: the calibration files, in sorted order
  file_no,       \* build: files the loop has taken
  summary_rows,  \* build: the buffer of summary rows
  master_csv,    \* the file summary.csv of the output root
  run_files,     \* the files of the run folders: <<os, version, name, run>>
  build_pc,      \* position of build_calibration_dataset
  builds,        \* runs of build_calibration_dataset started
  fault          \* what the run in progress raised, "none" when nothing

vars == <<summary_csv, collected, pc, full_df, csv_files, rows, new_df,
          exit_status, runs, start_summary, saved, rerun, prev_saved,
          report_script, script, report_pc, df, series, latest, report_html,
          cwd_csv, report_exit,
          board, frame_no, frame_points, frame_pairs, distances, run_pc, calib_row,
          calibration_folder, file_no, summary_rows, master_csv, run_files,
          build_pc, builds, fault>>

running == <<board, frame_no, frame_points, frame_pairs, distances, run_pc, calib_row>>

building == <<calibration_folder, file_no, summary_rows, master_csv, run_files,
              build_pc, builds>>

recording == <<running, building, fault>>

\* no run record is being built, and none has been
NothingRecorded ==
  /\ board = [w |-> 0, h |-> 0]
  /\ frame_no = 0
  /\ frame_points = {}
  /\ frame_pairs = -1
  /\ distances = 0
  /\ run_pc = "idle"
  /\ calib_row = [exists |-> FALSE, rows |-> <<>>]
  /\ calibration_folder = <<>>
  /\ file_no = 0
  /\ summary_rows = <<>>
  /\ master_csv = [exists |-> FALSE, lines |-> <<>>]
  /\ run_files = {}
  /\ build_pc = "idle"
  /\ builds = 0
  /\ fault = "none"

locals == <<full_df, csv_files, rows, new_df>>

observed == <<start_summary, saved, rerun, prev_saved>>

merge_state == <<observed, report_script>>

reporting == <<script, report_pc, df, series, latest, report_html, cwd_csv, report_exit>>

\* how a run ends: exit code 0, or one of the failures
ExitOk == "ok"
ExitNoCsvFiles == "no_csv_files"
ExitValueError == "ValueError"
ExitReportFailed == "report_failed"
ExitKilled == "killed"

\* the process is gone: its data frames with it
Exit(status) ==
  /\ pc' = "exited"
  /\ exit_status' = status
  /\ full_df' = <<>>
  /\ csv_files' = <<>>
  /\ rows' = <<>>
  /\ new_df' = <<>>

Init ==
  /\ summary_csv \in InitialSummaries
  /\ collected \in CollectedDirs
  /\ pc = "load"
  /\ full_df = <<>>
  /\ csv_files = <<>>
  /\ rows = <<>>
  /\ new_df = <<>>
  /\ exit_status = "running"
  /\ runs = 1
  /\ start_summary = summary_csv
  /\ saved = FALSE
  /\ rerun = FALSE
  /\ prev_saved = NoFile
  /\ report_script = "unreached"
  /\ script = "none"
  /\ report_pc = "idle"
  /\ df = <<>>
  /\ series = <<>>
  /\ latest = <<>>
  /\ report_html = FALSE
  /\ cwd_csv = NoFile
  /\ report_exit = -1
  /\ NothingRecorded

\* the file is read without asking whether it exists
LoadWithoutExistsCheck ==
  /\ pc = "load"
  /\ IF summary_csv.exists
       THEN /\ full_df' = summary_csv.rows
            /\ pc' = "glob"
            /\ UNCHANGED <<csv_files, rows, new_df, exit_status>>
       ELSE Exit("FileNotFoundError")
  /\ UNCHANGED <<summary_csv, collected, runs, merge_state, reporting, recording>>

\* 1) load existing summary
LoadExisting ==
  /\ pc = "load"
  /\ full_df' = IF summary_csv.exists THEN summary_csv.rows ELSE <<>>
  /\ pc' = "glob"
  /\ UNCHANGED <<summary_csv, collected, csv_files, rows, new_df, exit_status,
                 runs, merge_state, reporting, recording>>

\* 2) ingest rows: list the files; sys.exit when there is none
GlobCollected ==
  /\ pc = "glob"
  /\ IF collected = <<>>
       THEN Exit(ExitNoCsvFiles)
       ELSE /\ csv_files' = collected
            /\ pc' = "read"
            /\ UNCHANGED <<full_df, rows, new_df, exit_status>>
  /\ UNCHANGED <<summary_csv, collected, runs, merge_state, reporting, recording>>

\* the read loop: a file that fails to be read is reported and skipped
ReadFiles ==
  /\ pc = "read"
  /\ rows' = ReadableFrames(csv_files)
  /\ pc' = "concat"
  /\ UNCHANGED <<summary_csv, collected, full_df, csv_files, new_df, exit_status,
                 runs, merge_state, reporting, recording>>

\* new_df = pd.concat(rows): raises ValueError on an empty list;
\* then the os column of new_df is stripped
ConcatNew ==
  /\ pc = "concat"
  /\ IF rows = <<>>
       THEN Exit(ExitValueError)
       ELSE /\ new_df' = StripOs(PdConcat(rows))
            /\ pc' = "replace"
            /\ UNCHANGED <<full_df, csv_files, rows, exit_status>>
  /\ UNCHANGED <<summary_csv, collected, runs, merge_state, reporting, recording>>

\* the filtered history is written back before the new rows are appended
ReplaceCurrentWritingThrough ==
  /\ pc = "replace"
  /\ summary_csv' = [exists |-> TRUE, rows |-> DropCurrent(full_df)]
  /\ full_df' = StripOs(DropCurrent(full_df) \o new_df)
  /\ pc' = "save"
  /\ UNCHANGED <<collected, csv_files, rows, new_df, exit_status, runs, merge_state, reporting, recording>>

\* 3) replace old 'current' rows: filter, concat, strip the os column
ReplaceCurrent ==
  /\ pc = "replace"
  /\ full_df' = StripOs(DropCurrent(full_df) \o new_df)
  /\ pc' = "save"
  /\ UNCHANGED <<summary_csv, collected, csv_files, rows, new_df, exit_status,
                 runs, merge_state, reporting, recording>>

\* full_df.to_csv(summary_csv)
SaveSummary ==
  /\ pc = "save"
  /\ summary_csv' = [exists |-> TRUE, rows |-> full_df]
  /\ saved' = TRUE
  /\ pc' = "report"
  /\ UNCHANGED <<collected, locals, exit_status, runs, start_summary, rerun,
                 prev_saved, report_script, reporting, recording>>

\* a failed report puts the history back as the run found it
RegenerateReportRollingBack ==
  /\ pc = "report"
  /\ \E script_exists \in BOOLEAN, returncode \in {0, 1} :
       /\ report_script' = IF script_exists THEN "ran" ELSE "absent"
       /\ IF script_exists /\ returncode # 0
            THEN Exit(ExitReportFailed) /\ summary_csv' = start_summary
            ELSE Exit(ExitOk) /\ UNCHANGED summary_csv
  /\ UNCHANGED <<collected, runs, observed, reporting, recording>>

\* 4) regenerate HTML: the report script, when present, runs as a subprocess
RegenerateReport ==
  /\ pc = "report"
  /\ \E script_exists \in BOOLEAN, returncode \in {0, 1} :
       /\ report_script' = IF script_exists THEN "ran" ELSE "absent"
       /\ IF script_exists /\ returncode # 0
            THEN Exit(ExitReportFailed)
            ELSE Exit(ExitOk)
  /\ UNCHANGED <<summary_csv, collected, runs, observed, reporting, recording>>

\* the process dies (uncaught exception, kill) before it reaches the save
Crash ==
  /\ pc \in {"load", "glob", "read", "concat", "replace", "save"}
  /\ Exit(ExitKilled)
  /\ UNCHANGED <<summary_csv, collected, runs, merge_state, reporting, recording>>

\* the script is started again: on the same ./collected, or on a new one
NextRun ==
  /\ pc = "exited"
  /\ runs < MaxRuns
  /\ runs' = runs + 1
  /\ collected' \in CollectedDirs
  /\ rerun' = (collected' = collected)
  /\ prev_saved' = IF saved THEN summary_csv ELSE NoFile
  /\ start_summary' = summary_csv
  /\ saved' = FALSE
  /\ report_script' = "unreached"
  /\ pc' = "load"
  /\ exit_status' = "running"
  /\ UNCHANGED <<summary_csv, locals, reporting, recording>>

Next ==
  \/ LoadExisting
  \/ GlobCollected
  \/ ReadFiles
  \/ ConcatNew
  \/ ReplaceCurrent
  \/ SaveSummary
  \/ RegenerateReport
  \/ Crash
  \/ NextRun

Spec == Init /\ [][Next]_vars

\* ------------------------------------------------------------------------
\* The report scripts: the summary loaded and keyed by version, the views
\* ------------------------------------------------------------------------
EXPECTED == 58

\* a row of a file that has no mean_error column
NoColumn == <<>>

\* the statistics of the rows reported: as the run wrote them, of a file
\* without the mean_error column, and with the empty cell that pd.concat
\* leaves when rows of such a file are merged with rows that have the column
ReportStats ==
  LET made == get_neighbor_stats(57, 1, charuco_square_size)
  IN {made} \cup {[made EXCEPT !.mean_error = cell] : cell \in {NoColumn, NaN}}

ReportRows == [os : {Windows, Linux, PaddedLinux}, version : ReportVersions, stat : ReportStats]

\* "mean_error" in df.columns
HasMeanError(frame) == \E i \in 1..Len(frame) : frame[i].stat.mean_error # NoColumn

\* a file has a column in all its rows or in none; a cell may be empty
ReportSummaries ==
  {NoFile} \cup
  {[exists |-> TRUE, rows |-> h] :
     h \in {g \in SeqsUpTo(ReportRows, MaxReportRows) :
              \A i \in 1..Len(g) : (g[i].stat.mean_error # NoColumn) = HasMeanError(g)}}

\* df["mean_error"] = df["mean_distance"] - EXPECTED
ComputeMeanError(frame) ==
  [i \in 1..Len(frame) |->
     [frame[i] EXCEPT !.stat.mean_error = RatMinus(frame[i].stat.mean_distance, EXPECTED)]]

\* if "mean_error" not in df.columns: compute it
WithMeanError(frame) == IF HasMeanError(frame) THEN frame ELSE ComputeMeanError(frame)

\* a row with its version_key column
KeyedRow(r, key) ==
  [os |-> r.os, version |-> r.version, stat |-> r.stat, version_key |-> key]

\* df["version_key"] = df["version"].apply(safe_parse)
WithSafeParseKey(frame) ==
  [i \in 1..Len(frame) |-> KeyedRow(frame[i], safe_parse(frame[i].version))]

\* df["version_key"] = df["version"].apply(vparse)
WithVparseKey(frame) ==
  [i \in 1..Len(frame) |-> KeyedRow(frame[i], vparse(frame[i].version))]

\* a tag that is no version gets through
KeysUnchecked(frame) == TRUE

AllKeysValid(frame) == \A i \in 1..Len(frame) : frame[i].version_key.valid

\* the order of sort_values(["os", "version_key"])
OsThenVersionLess(r, q) ==
  \/ StrLess(r.os, q.os)
  \/ r.os = q.os /\ VersionLess(r.version_key, q.version_key)

\* sort_values(["os", "version_key"]), a stable sort: each row goes behind
\* the rows that are not greater
RECURSIVE SortValues(_)
SortValues(frame) ==
  IF frame = <<>> THEN <<>>
  ELSE LET sorted == SortValues(SubSeq(frame, 1, Len(frame) - 1))
           r == frame[Len(frame)]
           n == Cardinality({i \in 1..Len(sorted) : ~OsThenVersionLess(r, sorted[i])})
       IN SubSeq(sorted, 1, n) \o <<r>> \o SubSeq(sorted, n + 1, Len(sorted))

\* drop_duplicates(subset=["os", "version"], keep="last")
IsLastOfKey(frame, i) == \A j \in (i + 1)..Len(frame) : Key(frame[j]) # Key(frame[i])

RECURSIVE DropDuplicatesKeepLast(_)
DropDuplicatesKeepLast(frame) ==
  IF frame = <<>> THEN <<>>
  ELSE IF IsLastOfKey(frame, 1)
    THEN <<Head(frame)>> \o DropDuplicatesKeepLast(Tail(frame))
    ELSE DropDuplicatesKeepLast(Tail(frame))

macOS == <<"m", "a", "c", "O", "S">>

OS_ORDER == <<Windows, macOS, Linux>>

\* df[df["os"] == os_name]
SelectOs(frame, os_name) == SelectSeq(frame, LAMBDA r : r.os = os_name)

\* str.lower, of the letters of the platform names
LowerChar(c) ==
  CASE c = "D" -> "d" [] c = "L" -> "l" [] c = "O" -> "o" [] c = "S" -> "s"
    [] c = "W" -> "w" [] OTHER -> c

Lower(text) == [i \in 1..Len(text) |-> LowerChar(text[i])]

\* df[df["os"].str.lower() == os_name.lower()]
SelectOsLower(frame, os_name) == SelectSeq(frame, LAMBDA r : Lower(r.os) = Lower(os_name))

Reverse(frame) == [i \in 1..Len(frame) |-> frame[Len(frame) + 1 - i]]

\* sort_values("version_key"), as a stable sort
RECURSIVE SortByVersionKey(_)
SortByVersionKey(frame) ==
  IF frame = <<>> THEN <<>>
  ELSE LET sorted == SortByVersionKey(SubSeq(frame, 1, Len(frame) - 1))
           r == frame[Len(frame)]
           n == Cardinality({i \in 1..Len(sorted) :
                               ~VersionLess(r.version_key, sorted[i].version_key)})
       IN SubSeq(sorted, 1, n) \o <<r>> \o SubSeq(sorted, n + 1, Len(sorted))

\* sort_values("version_key", ascending=False): pandas sorts the reversed
\* frame and reverses the result
SortDescending(frame) == Reverse(SortByVersionKey(Reverse(frame)))

\* the place where a tag first appears: the order of df["version"].unique()
FirstPlace(frame, tag) ==
  CHOOSE i \in 1..Len(frame) :
    frame[i].version = tag /\ \A j \in 1..(i - 1) : frame[j].version # tag

\* numeric_versions
NumericTags(frame) == {frame[i].version : i \in 1..Len(frame)} \ {current}

\* version_to_index: the place of a tag in sorted(numeric_versions,
\* key=vparse), a stable sort, with "current" appended
sort_key(frame, tag) ==
  IF tag = current THEN Cardinality(NumericTags(frame))
  ELSE Cardinality({u \in NumericTags(frame) :
         \/ VersionLess(vparse(u), vparse(tag))
         \/ /\ ~VersionLess(vparse(tag), vparse(u))
            /\ FirstPlace(frame, u) < FirstPlace(frame, tag)})

\* os_data.sort_values('sort_key'), the keys being those of the whole df
RECURSIVE SortBySortKey(_, _)
SortBySortKey(frame, whole) ==
  IF frame = <<>> THEN <<>>
  ELSE LET sorted == SortBySortKey(SubSeq(frame, 1, Len(frame) - 1), whole)
           r == frame[Len(frame)]
           n == Cardinality({i \in 1..Len(sorted) :
                  sort_key(whole, sorted[i].version) <= sort_key(whole, r.version)})
       IN SubSeq(sorted, 1, n) \o <<r>> \o SubSeq(sorted, n + 1, Len(sorted))

\* the row reindex(OS_ORDER) makes for a platform without rows
NanRow(os_name) ==
  [os |-> os_name, version |-> <<"n", "a", "n">>,
   stat |-> [mean_distance |-> NaN, mean_error |-> NaN], version_key |-> InvalidVersion]

\* a row of the fallback table of generate_diagnostic_report
ZeroRow(os_name) ==
  [os |-> os_name, version |-> <<>>,
   stat |-> [mean_distance |-> <<0, 1>>, mean_error |-> <<0, 1>>],
   version_key |-> InvalidVersion]

\* groupby("os").first(): the first row of each platform
IsFirstOfOs(frame, i) == \A j \in 1..(i - 1) : frame[j].os # frame[i].os

\* groupby("os").tail(1): the last row of each platform, in the frame's order
IsLastOfOs(frame, i) == \A j \in (i + 1)..Len(frame) : frame[j].os # frame[i].os

GroupbyTail(frame) ==
  LET kept == {i \in 1..Len(frame) : IsLastOfOs(frame, i)}
      Nth(n) == CHOOSE i \in kept : Cardinality({j \in kept : j < i}) = n - 1
  IN [n \in 1..Cardinality(kept) |-> frame[Nth(n)]]

\* ...groupby("os").first() of the descending frame, then reindex(OS_ORDER)
CalibrationLatest(frame) ==
  LET sorted == SortDescending(frame)
  IN [n \in 1..Len(OS_ORDER) |->
        IF \E i \in 1..Len(sorted) : sorted[i].os = OS_ORDER[n]
          THEN sorted[CHOOSE i \in 1..Len(sorted) :
                        sorted[i].os = OS_ORDER[n] /\ IsFirstOfOs(sorted, i)]
          ELSE NanRow(OS_ORDER[n])]

\* os_df.loc[os_df['version_key'].idxmax()]: the first row of the greatest key
IdxMax(frame) ==
  frame[CHOOSE i \in 1..Len(frame) :
          /\ \A j \in 1..Len(frame) : ~VersionLess(frame[i].version_key, frame[j].version_key)
          /\ \A j \in 1..(i - 1) :
               VersionLess(frame[j].version_key, frame[i].version_key)]

\* latest_rows, or the fallback table when no platform has rows
DiagnosticLatest(frame) ==
  LET found == SelectSeq(OS_ORDER, LAMBDA os_name : SelectOs(frame, os_name) # <<>>)
  IN IF found = <<>>
       THEN [n \in 1..Len(OS_ORDER) |-> ZeroRow(OS_ORDER[n])]
       ELSE [n \in 1..Len(found) |-> IdxMax(SelectOs(frame, found[n]))]

\* the rows of the file at the second candidate path
CwdRows ==
  [os : {Windows, Linux}, version : {V_1_9_0, current},
   stat : {get_neighbor_stats(57, 1, charuco_square_size)}]

\* the two files a report script may find: every history at the first path
\* with nothing at the second, and a one-row file at the second path next
\* to no file or a one-row file at the first
CandidateFiles ==
  {<<first, NoFile>> : first \in ReportSummaries}
    \cup {<<first, [exists |-> TRUE, rows |-> <<r>>]>> :
            first \in {NoFile} \cup {[exists |-> TRUE, rows |-> <<q>>] : q \in CwdRows},
            r \in CwdRows}

ReportInit ==
  /\ \E files \in CandidateFiles : summary_csv = files[1] /\ cwd_csv = files[2]
  /\ collected = <<>>
  /\ pc = "exited"
  /\ full_df = <<>>
  /\ csv_files = <<>>
  /\ rows = <<>>
  /\ new_df = <<>>
  /\ exit_status = ExitOk
  /\ runs = 0
  /\ start_summary = summary_csv
  /\ saved = FALSE
  /\ rerun = FALSE
  /\ prev_saved = NoFile
  /\ report_script = "unreached"
  /\ script = "none"
  /\ report_pc = "start"
  /\ df = <<>>
  /\ series = <<>>
  /\ latest = <<>>
  /\ report_html = FALSE
  /\ report_exit = -1
  /\ NothingRecorded

merging == <<collected, pc, locals, exit_status, runs, merge_state>>

\* load_summary_data: the candidate paths, in the order of the list; the
\* first and the third name the same file of the working directory
possible_paths == <<summary_csv, cwd_csv, summary_csv>>

\* the file of the working directory is tried before the others
SecondCandidateFirst(paths) ==
  IF paths[2].exists THEN paths[2]
  ELSE IF paths[1].exists THEN paths[1]
  ELSE IF paths[3].exists THEN paths[3]
  ELSE NoFile

\* the first candidate that exists; NoFile where summary_csv stays None
FirstExisting(paths) ==
  IF \A i \in 1..Len(paths) : ~paths[i].exists
    THEN NoFile
    ELSE paths[CHOOSE i \in 1..Len(paths) :
                 paths[i].exists /\ \A j \in 1..(i - 1) : ~paths[j].exists]

\* a script ends with an error: sys.exit(1) or an exception of vparse
ReportFails(name) ==
  /\ script' = name
  /\ report_pc' = "failed"
  /\ report_exit' = 1
  /\ df' = <<>>
  /\ UNCHANGED <<summary_csv, cwd_csv, series, latest, report_html>>

ReportLoads(name, frame) ==
  /\ script' = name
  /\ report_pc' = "loaded"
  /\ df' = frame
  /\ UNCHANGED <<summary_csv, cwd_csv, series, latest, report_html, report_exit>>

\* generate_calibration_report.load_summary_data
CalibrationReportLoad ==
  /\ report_pc = "start"
  /\ IF ~FirstExisting(possible_paths).exists
       THEN ReportFails("generate_calibration_report")
       ELSE LET keyed == WithSafeParseKey(StripOs(FirstExisting(possible_paths).rows))
            IN IF AllKeysValid(keyed)
                 THEN ReportLoads("generate_calibration_report",
                                  SortValues(WithMeanError(keyed)))
                 ELSE ReportFails("generate_calibration_report")
  /\ UNCHANGED <<merging, recording>>

\* generate_diagnostic_report.load_summary_data
DiagnosticReportLoad ==
  /\ report_pc = "start"
  /\ IF ~FirstExisting(possible_paths).exists
       THEN ReportFails("generate_diagnostic_report")
       ELSE LET keyed == WithSafeParseKey(StripOs(DropDuplicatesKeepLast(
                           FirstExisting(possible_paths).rows)))
            IN IF AllKeysValid(keyed)
                 THEN ReportLoads("generate_diagnostic_report", WithMeanError(keyed))
                 ELSE ReportFails("generate_diagnostic_report")
  /\ UNCHANGED <<merging, recording>>

\* plot_calibration_versions, "1) Load & prep": read_csv of a missing file
\* raises, and so does vparse of a tag that is no version
PlotVersionsLoad ==
  /\ report_pc = "start"
  /\ IF ~summary_csv.exists
       THEN ReportFails("plot_calibration_versions")
       ELSE LET keyed == WithVparseKey(summary_csv.rows)
            IN IF AllKeysValid(keyed)
                 THEN ReportLoads("plot_calibration_versions",
                                  ComputeMeanError(SortValues(keyed)))
                 ELSE ReportFails("plot_calibration_versions")
  /\ UNCHANGED <<merging, recording>>

\* the prepared frame is written over the history as well
ReportWritesHistory(traces, table) ==
  /\ report_pc' = "written"
  /\ series' = traces
  /\ latest' = table
  /\ report_html' = TRUE
  /\ report_exit' = 0
  /\ summary_csv' = [exists |-> TRUE,
                     rows |-> [i \in 1..Len(df) |->
                                 [os |-> df[i].os, version |-> df[i].version,
                                  stat |-> df[i].stat]]]
  /\ UNCHANGED <<cwd_csv, script, df>>

\* a script writes its report file, and no other file
ReportWrites(traces, table) ==
  /\ report_pc' = "written"
  /\ series' = traces
  /\ latest' = table
  /\ report_html' = TRUE
  /\ report_exit' = 0
  /\ UNCHANGED <<summary_csv, cwd_csv, script, df>>

\* generate_calibration_report.generate_html_report, with generate_figures
\* (the traces of figure 1) and generate_summary_table
CalibrationReportHtml ==
  /\ script = "generate_calibration_report"
  /\ report_pc = "loaded"
  /\ ReportWrites([n \in 1..Len(OS_ORDER) |-> SortByVersionKey(SelectOs(df, OS_ORDER[n]))],
                  CalibrationLatest(df))
  /\ UNCHANGED <<merging, recording>>

\* generate_diagnostic_report.generate_html_report, with generate_figures
\* (the traces of figure 1) and generate_summary_table; idxmax of a column of
\* Version objects raises a TypeError in the pandas releases whose argmax
\* does not reduce the object dtype
DiagnosticReportHtml ==
  /\ script = "generate_diagnostic_report"
  /\ report_pc = "loaded"
  /\ \E idxmax_raises \in BOOLEAN :
       IF idxmax_raises /\ \E n \in 1..Len(OS_ORDER) : SelectOs(df, OS_ORDER[n]) # <<>>
         THEN /\ report_pc' = "failed"
              /\ report_exit' = 1
              /\ UNCHANGED <<summary_csv, cwd_csv, script, df, series, latest, report_html>>
         ELSE ReportWrites([n \in 1..Len(OS_ORDER) |->
                              SortBySortKey(SelectOs(df, OS_ORDER[n]), df)],
                           DiagnosticLatest(df))
  /\ UNCHANGED <<merging, recording>>

\* plot_calibration_versions, from "2) FIGURE 1" to the write of report_html
PlotVersionsHtml ==
  /\ script = "plot_calibration_versions"
  /\ report_pc = "loaded"
  /\ ReportWrites([n \in 1..Len(OS_ORDER) |-> SelectOsLower(df, OS_ORDER[n])],
                  GroupbyTail(SortByVersionKey(df)))
  /\ UNCHANGED <<merging, recording>>

ReportNext ==
  \/ CalibrationReportLoad
  \/ DiagnosticReportLoad
  \/ PlotVersionsLoad
  \/ CalibrationReportHtml
  \/ DiagnosticReportHtml
  \/ PlotVersionsHtml

ReportSpec == ReportInit /\ [][ReportNext]_vars

\* ------------------------------------------------------------------------
\* The run records: calculate_calibration_diagnostics.run and
\* get_calibration_diag_for_previous_versions.build_calibration_dataset
\* ------------------------------------------------------------------------
\* a pair gives a distance when one of its positions is detected
PairsWithOneEnd(detected, number_of_squares_width, number_of_squares_height) ==
  LET across == {<<<<r, c>>, <<r, c + 1>>>> :
                   r \in 1..number_of_squares_height, c \in 1..(number_of_squares_width - 1)}
      down == {<<<<r, c>>, <<r + 1, c>>>> :
                 r \in 1..(number_of_squares_height - 1), c \in 1..number_of_squares_width}
  IN {pair \in across \cup down : pair[1] \in detected \/ pair[2] \in detected}

\* get_neighbor_distances, of the positions detected in one frame: the board
\* positions form a grid of number_of_squares_height rows and
\* number_of_squares_width columns, and a pair of neighbours in a row or in a
\* column gives a distance when both its positions are detected
get_neighbor_distances(detected, number_of_squares_width, number_of_squares_height) ==
  LET across == {<<<<r, c>>, <<r, c + 1>>>> :
                   r \in 1..number_of_squares_height, c \in 1..(number_of_squares_width - 1)}
      down == {<<<<r, c>>, <<r + 1, c>>>> :
                 r \in 1..(number_of_squares_height - 1), c \in 1..number_of_squares_width}
  IN {pair \in across \cup down : pair[1] \in detected /\ pair[2] \in detected}

\* the statistics of no distances are computed all the same
StatsNeverFail(count) == FALSE

\* get_neighbor_stats raises on an empty set of distances
StatsFail(count) == count = 0

\* os_map.get(raw_os, raw_os)
os_map(raw_os) == IF raw_os = Darwin THEN macOS ELSE raw_os

BoardPoints(w, h) == (1..h) \X (1..w)

\* the frames of a recording, by the positions detected: up to MaxMissing
\* positions missing, or none detected
FramesOf(w, h) ==
  {BoardPoints(w, h) \ missing :
     missing \in {m \in SUBSET BoardPoints(w, h) : Cardinality(m) <= MaxMissing}}
    \cup {{}}

\* run, l.14-23: the 3-D data and the board of the recording
RunStart ==
  /\ run_pc = "idle"
  /\ build_pc = "idle"
  /\ \E w, h \in 2..MaxSquares : board' = [w |-> w, h |-> h]
  /\ run_pc' = "extract"
  /\ UNCHANGED <<frame_no, frame_points, frame_pairs, distances, calib_row, fault, building>>
  /\ UNCHANGED <<summary_csv, merging, reporting>>

\* get_neighbor_distances takes the distances of one more frame
ExtractFrame ==
  /\ run_pc = "extract"
  /\ frame_no < MaxFrames
  /\ frame_pairs = -1
  /\ \E detected \in FramesOf(board.w, board.h) :
       /\ frame_points' = detected
       /\ frame_pairs' = Cardinality(get_neighbor_distances(detected, board.w, board.h))
  /\ frame_no' = frame_no + 1
  /\ UNCHANGED <<board, distances, run_pc, calib_row, fault, building>>
  /\ UNCHANGED <<summary_csv, merging, reporting>>

\* ... and adds them to its result
CollectFrame ==
  /\ run_pc = "extract"
  /\ frame_pairs >= 0
  /\ distances' = distances + frame_pairs
  /\ frame_points' = {}
  /\ frame_pairs' = -1
  /\ UNCHANGED <<board, frame_no, run_pc, calib_row, fault, building>>
  /\ UNCHANGED <<summary_csv, merging, reporting>>

\* run, l.31-47: the statistics and the row
RunStats ==
  /\ run_pc = "extract"
  /\ frame_pairs = -1
  /\ IF StatsFail(distances)
       THEN run_pc' = "failed" /\ fault' = "InsufficientDataError"
       ELSE run_pc' = "row" /\ fault' = fault
  /\ UNCHANGED <<board, frame_no, frame_points, frame_pairs, distances, calib_row, building>>
  /\ UNCHANGED <<summary_csv, merging, reporting>>

\* run, l.49-52: the row is written to calib_row.csv, or the write fails
RunWrite ==
  /\ run_pc = "row"
  /\ \E raw_os \in {Darwin, Windows, Linux}, write_fails \in BOOLEAN :
       IF write_fails
         THEN run_pc' = "failed" /\ fault' = "calib_row" /\ calib_row' = calib_row
         ELSE /\ run_pc' = "done"
              /\ fault' = fault
              /\ calib_row' =
                   [exists |-> TRUE,
                    rows |-> <<[os |-> os_map(raw_os), version |-> current,
                                stat |-> get_neighbor_stats(57 * distances, distances,
                                                            charuco_square_size)]>>]
  /\ UNCHANGED <<board, frame_no, frame_points, frame_pairs, distances, building>>
  /\ UNCHANGED <<summary_csv, merging, reporting>>

BOARD_SQUARE_SIZE_MM == 58
BOARD_NUM_WIDTH == 7
BOARD_NUM_HEIGHT == 5

CalibrationPrefix == <<"c", "a", "l", "i", "b", "r", "a", "t", "i", "o", "n", "_">>
TomlSuffix == <<".", "t", "o", "m", "l">>
V_1 == <<"1">>

\* the name calibration_<OS>_<version>.toml
CalibrationName(os_name, version) ==
  CalibrationPrefix \o os_name \o <<"_">> \o version \o TomlSuffix

\* the names of the calibration folder, in the order of sorted(glob(...))
FolderNames ==
  <<CalibrationPrefix \o V_1_0_0 \o TomlSuffix,
    CalibrationName(Linux, V_1_0_0), CalibrationName(Linux, V_1),
    CalibrationName(Windows, V_1_0_0)>>

\* the calibration folders: some of the names, each with the frame that its
\* calibration triangulates (all positions, or none)
CalibrationFolders ==
  UNION {{[i \in 1..Cardinality(chosen) |->
             [name |-> FolderNames[CHOOSE n \in chosen :
                                     Cardinality({m \in chosen : m < n}) = i - 1],
              detected |-> IF i \in whole
                             THEN BoardPoints(BOARD_NUM_WIDTH, BOARD_NUM_HEIGHT) ELSE {}]] :
            whole \in SUBSET (1..Cardinality(chosen))} :
         chosen \in SUBSET (1..Len(FolderNames))}

\* the place of the last "_" of a text, 0 when it has none
LastUnderscore(text) ==
  IF \E i \in 1..Len(text) : text[i] = "_"
    THEN CHOOSE i \in 1..Len(text) :
           text[i] = "_" /\ \A j \in (i + 1)..Len(text) : text[j] # "_"
    ELSE 0

\* the name is cut at its last "_" and the pieces are taken as they are
ParseUnchecked(toml_name) ==
  LET name == toml_name
      n == Len(name)
      middle == SubSeq(name, Len(CalibrationPrefix) + 1, n - Len(TomlSuffix))
      cut == LastUnderscore(middle)
  IN [ok |-> TRUE, os |-> SubSeq(middle, 1, cut - 1),
      version |-> SubSeq(middle, cut + 1, Len(middle))]

\* _parse_filename: re.match of calibration_(.+)_(\d+\.\d+\.\d+)\.toml$ ;
\* "$" matches at the end of the name and before a newline that ends it;
\* ok is FALSE where the function raises ValueError
parse_filename(toml_name) ==
  LET name == IF toml_name # <<>> /\ toml_name[Len(toml_name)] = "\n"
                THEN SubSeq(toml_name, 1, Len(toml_name) - 1) ELSE toml_name
      n == Len(name)
      p == Len(CalibrationPrefix)
      s == Len(TomlSuffix)
      framed == /\ n >= p + s
                /\ SubSeq(name, 1, p) = CalibrationPrefix
                /\ SubSeq(name, n - s + 1, n) = TomlSuffix
      middle == SubSeq(name, p + 1, n - s)
      cut == LastUnderscore(middle)
      os_name == SubSeq(middle, 1, cut - 1)
      version == SubSeq(middle, cut + 1, Len(middle))
      pieces == SplitDots(version)
  IN IF /\ framed
        /\ cut > 1
        /\ Len(pieces) = 3
        /\ \A i \in 1..3 : IsDigitRun(pieces[i])
       THEN [ok |-> TRUE, os |-> os_name, version |-> version]
       ELSE [ok |-> FALSE, os |-> <<>>, version |-> <<>>]

\* a line of summary.csv: the header that writeheader writes (with the
\* column names, or empty when fieldnames is []) or a row
HeaderLine(with_columns, run_no) ==
  [kind |-> "header", columns |-> with_columns, os |-> <<>>, version |-> <<>>,
   stat |-> [mean_distance |-> NaN, mean_error |-> NaN], build |-> run_no]

RowLine(r, run_no) ==
  [kind |-> "row", columns |-> TRUE, os |-> r.os, version |-> r.version,
   stat |-> r.stat, build |-> run_no]

\* build_calibration_dataset, l.71-112: a run starts on the calibration
\* folder, over the output root as the runs before left it
BuildStart ==
  /\ run_pc = "idle"
  /\ build_pc \in {"idle", "done", "failed"}
  /\ builds < MaxBuilds
  /\ builds' = builds + 1
  /\ calibration_folder' \in CalibrationFolders
  /\ file_no' = 0
  /\ summary_rows' = <<>>
  /\ build_pc' = "loop"
  /\ fault' = "none"
  /\ UNCHANGED <<master_csv, run_files, running>>
  /\ UNCHANGED <<summary_csv, merging, reporting>>

\* the files of a run folder that one pass of the loop leaves behind, and
\* whether the pass adds its row, up to the step that raises
LoopBody(file, io_fault) ==
  LET parsed == parse_filename(file.name)
      count == Cardinality(get_neighbor_distances(file.detected, BOARD_NUM_WIDTH,
                                                  BOARD_NUM_HEIGHT))
      Kept(order) == {<<parsed.os, parsed.version, order[i], builds>> : i \in 1..Len(order)}
      Raised(cause, order) == [fault |-> cause, files |-> Kept(order), row |-> <<>>]
  IN IF ~parsed.ok THEN [fault |-> "ValueError", files |-> {}, row |-> <<>>]
     ELSE IF io_fault = "calibration.toml" THEN Raised(io_fault, <<>>)
     ELSE IF io_fault = "triangulate" THEN Raised(io_fault, <<"calibration.toml">>)
     ELSE IF io_fault = "charuco_3d_xyz.npy" THEN Raised(io_fault, <<"calibration.toml">>)
     ELSE IF StatsFail(count)
       THEN Raised("InsufficientDataError", <<"calibration.toml", "charuco_3d_xyz.npy">>)
     ELSE IF io_fault = "charuco_3d_stats.csv"
       THEN Raised(io_fault, <<"calibration.toml", "charuco_3d_xyz.npy">>)
     ELSE [fault |-> "none",
           files |-> Kept(<<"calibration.toml", "charuco_3d_xyz.npy",
                            "charuco_3d_stats.csv">>),
           row |-> <<[os |-> parsed.os, version |-> parsed.version,
                      stat |-> get_neighbor_stats(57 * count, count,
                                                  BOARD_SQUARE_SIZE_MM)]>>]

\* build_calibration_dataset, l.114-157: one pass of the loop; an exception
\* ends the run
ProcessFile ==
  /\ build_pc = "loop"
  /\ file_no < Len(calibration_folder)
  /\ \E io_fault \in {"none", "calibration.toml", "triangulate", "charuco_3d_xyz.npy",
                      "charuco_3d_stats.csv"} :
       LET pass == LoopBody(calibration_folder[file_no + 1], io_fault)
       IN /\ run_files' = run_files \cup pass.files
          /\ summary_rows' = summary_rows \o pass.row
          /\ fault' = pass.fault
          /\ build_pc' = IF pass.fault = "none" THEN "loop" ELSE "failed"
  /\ file_no' = file_no + 1
  /\ UNCHANGED <<calibration_folder, master_csv, builds, running>>
  /\ UNCHANGED <<summary_csv, merging, reporting>>

\* the buffer is written in a finally clause: also when the loop has raised
BuildWriteSummaryInFinally ==
  /\ \/ build_pc = "loop" /\ file_no = Len(calibration_folder)
     \/ build_pc = "failed" /\ \A i \in 1..Len(master_csv.lines) :
                                 master_csv.lines[i].build # builds
  /\ master_csv' =
       [exists |-> TRUE,
        lines |-> master_csv.lines
                    \o (IF master_csv.exists THEN <<>>
                        ELSE <<HeaderLine(summary_rows # <<>>, builds)>>)
                    \o [i \in 1..Len(summary_rows) |-> RowLine(summary_rows[i], builds)]]
  /\ build_pc' = IF build_pc = "failed" THEN "failed" ELSE "done"
  /\ UNCHANGED <<calibration_folder, file_no, summary_rows, run_files, builds, fault, running>>
  /\ UNCHANGED <<summary_csv, merging, reporting>>

\* build_calibration_dataset, l.159-170: the buffer is appended to summary.csv,
\* behind a header when the file is new
BuildWriteSummary ==
  /\ build_pc = "loop"
  /\ file_no = Len(calibration_folder)
  /\ master_csv' =
       [exists |-> TRUE,
        lines |-> master_csv.lines
                    \o (IF master_csv.exists THEN <<>>
                        ELSE <<HeaderLine(summary_rows # <<>>, builds)>>)
                    \o [i \in 1..Len(summary_rows) |-> RowLine(summary_rows[i], builds)]]
  /\ build_pc' = "done"
  /\ UNCHANGED <<calibration_folder, file_no, summary_rows, run_files, builds, fault, running>>
  /\ UNCHANGED <<summary_csv, merging, reporting>>

RecordInit ==
  /\ summary_csv = NoFile
  /\ collected = <<>>
  /\ pc = "exited"
  /\ full_df = <<>>
  /\ csv_files = <<>>
  /\ rows = <<>>
  /\ new_df = <<>>
  /\ exit_status = ExitOk
  /\ runs = 0
  /\ start_summary = summary_csv
  /\ saved = FALSE
  /\ rerun = FALSE
  /\ prev_saved = NoFile
  /\ report_script = "unreached"
  /\ script = "none"
  /\ report_pc = "idle"
  /\ df = <<>>
  /\ series = <<>>
  /\ latest = <<>>
  /\ report_html = FALSE
  /\ cwd_csv = NoFile
  /\ report_exit = -1
  /\ NothingRecorded

RecordNext ==
  \/ RunStart
  \/ ExtractFrame
  \/ CollectFrame
  \/ RunStats
  \/ RunWrite
  \/ BuildStart
  \/ ProcessFile
  \/ BuildWriteSummary

RecordSpec == RecordInit /\ [][RecordNext]_vars

\* ------------------------------------------------------------------------
\* Vocabulary of the properties of the merge
\* ------------------------------------------------------------------------
NormRow(r) == [r EXCEPT !.os = StrStrip(@)]

\* the rows of the new batch, by place: <<file, line>> of a file that reads
BatchPositions ==
  UNION {{<<i, j>> : j \in 1..Len(collected[i].rows)} :
           i \in {n \in 1..Len(collected) : collected[n].readable}}

BatchAt(p) == NormRow(collected[p[1]].rows[p[2]])

BatchRowSet == {BatchAt(p) : p \in BatchPositions}

BatchKeys == {Key(BatchAt(p)) : p \in BatchPositions}

PosLess(p, q) == p[1] < q[1] \/ (p[1] = q[1] /\ p[2] < q[2])

\* the last row of the batch with key k
LastOfKey(k) ==
  LET ps == {p \in BatchPositions : Key(BatchAt(p)) = k}
  IN BatchAt(CHOOSE p \in ps : \A q \in ps : q = p \/ PosLess(q, p))

Persisted == summary_csv.rows

Before == start_summary.rows

PlacesOfKey(frame, k) == {i \in 1..Len(frame) : Key(frame[i]) = k}

CurrentPlaces(frame) == {i \in 1..Len(frame) : frame[i].version = current}

\* the rows of the history before the run that are not tagged "current"
KeptPlaces == {i \in 1..Len(Before) : Before[i].version # current}

KeptRowSet == {NormRow(Before[i]) : i \in KeptPlaces}

\* no two rows of the batch share a key
BatchKeysDistinct ==
  \A p, q \in BatchPositions : Key(BatchAt(p)) = Key(BatchAt(q)) => p = q


\* ------------------------------------------------------------------------
\* C1: after any sequence of merge runs from a history with unique keys, the
\* persisted history holds at most one row per (os, version) key.
\* ------------------------------------------------------------------------
C1_OneRowPerKey == UniqueKeys(Persisted)

\* ------------------------------------------------------------------------
\* C2: after a merge has saved, every key of the batch is held by exactly one
\* persisted row, and that row is the latest-appended row of that key (the
\* last row of the batch with that key): earlier rows of the key are gone.
\* ------------------------------------------------------------------------
C2_LatestAppendedWins ==
  saved =>
    \A k \in BatchKeys :
      /\ Cardinality(PlacesOfKey(Persisted, k)) = 1
      /\ \A i \in PlacesOfKey(Persisted, k) : Persisted[i] = LastOfKey(k)

\* ------------------------------------------------------------------------
\* C3: a merge that has saved leaves no "current" row of the earlier history,
\* for any platform: the "current" rows persisted are the "current" rows of
\* the new batch, as many and the same.
\* ------------------------------------------------------------------------
C3_OnlyBatchCurrentRows ==
  saved =>
    /\ {Persisted[i] : i \in CurrentPlaces(Persisted)}
         = {r \in BatchRowSet : r.version = current}
    /\ Cardinality(CurrentPlaces(Persisted))
         = Cardinality({p \in BatchPositions : BatchAt(p).version = current})

\* the history held "current" rows of two platforms, the batch covers one
C3_Witness ==
  /\ saved
  /\ \E i, j \in CurrentPlaces(Before) : StrStrip(Before[i].os) # StrStrip(Before[j].os)
  /\ BatchPositions # {}
  /\ \A p, q \in BatchPositions : BatchAt(p).os = BatchAt(q).os

\* ------------------------------------------------------------------------
\* C4: merging the same batch a second time leaves each key exactly once
\* and the history as the first merge saved it.
\* ------------------------------------------------------------------------
C4_SecondMergeChangesNothing ==
  (rerun /\ saved /\ prev_saved.exists) =>
    /\ summary_csv = prev_saved
    /\ \A k \in Keys(Persisted) : Cardinality(PlacesOfKey(Persisted, k)) = 1

\* ------------------------------------------------------------------------
\* C5: a merge whose new batch has no rows ends in a failure: it does not
\* write the history and does not reach the success exit.
\* ------------------------------------------------------------------------
C5_EmptyBatchFails ==
  BatchPositions = {} => (~saved /\ exit_status # ExitOk)

\* ------------------------------------------------------------------------
\* C6: with no history file, the load gives an empty history and raises no
\* error; with a batch of at least one row the run reaches the save, and the
\* history persisted is exactly the rows of the batch.
\* ------------------------------------------------------------------------
C6_MissingHistoryStartsEmpty ==
  (~start_summary.exists /\ BatchPositions # {}) =>
    /\ exit_status \in {"running", ExitOk, ExitReportFailed, ExitKilled}
    /\ (pc \in {"glob", "read", "concat", "replace"} => full_df = <<>>)
    /\ (exit_status \in {ExitOk, ExitReportFailed} => saved)
    /\ (saved => /\ RowSet(Persisted) = BatchRowSet
                 /\ Len(Persisted) = Cardinality(BatchPositions))

C6_Witness ==
  /\ ~start_summary.exists
  /\ exit_status = ExitOk
  /\ saved
  /\ Len(Persisted) = 2

\* ------------------------------------------------------------------------
\* C7: when the keys of the batch are pairwise distinct and distinct from
\* the keys of the history rows that are not "current", the history after
\* the merge is exactly those history rows together with the batch rows.
\* ------------------------------------------------------------------------
C7_ExactUnion ==
  (saved /\ BatchKeysDistinct /\ BatchKeys \cap {Key(r) : r \in KeptRowSet} = {}) =>
    /\ RowSet(Persisted) = KeptRowSet \cup BatchRowSet
    /\ Len(Persisted) = Cardinality(KeptPlaces) + Cardinality(BatchPositions)

\* history {(Windows, 1.0.0)}, batch {(Windows, current), (Linux, current)}
C7_Witness ==
  /\ saved
  /\ Keys(Before) = {<<Windows, V_1_0_0>>}
  /\ BatchKeysDistinct
  /\ BatchKeys = {<<Windows, current>>, <<Linux, current>>}
  /\ Keys(Persisted) = {<<Windows, V_1_0_0>>, <<Windows, current>>, <<Linux, current>>}
  /\ Len(Persisted) = 3

\* ------------------------------------------------------------------------
\* C8: a merge keeps every history row that is not "current": its key is
\* still there after the merge, and when the batch does not carry the key
\* the row is there with its statistics, and no row of the key has others.
\* ------------------------------------------------------------------------
C8_NumericRowsKept ==
  saved =>
    \A i \in KeptPlaces :
      LET r == NormRow(Before[i])
      IN /\ PlacesOfKey(Persisted, Key(r)) # {}
         /\ Key(r) \notin BatchKeys =>
              /\ \E j \in 1..Len(Persisted) : Persisted[j] = r
              /\ \A j \in PlacesOfKey(Persisted, Key(r)) : Persisted[j] \in KeptRowSet

\* a numeric row the batch does not touch, next to a "current" row replaced
C8_Witness ==
  /\ saved
  /\ \E i \in KeptPlaces : Key(NormRow(Before[i])) \notin BatchKeys
  /\ CurrentPlaces(Before) # {}
  /\ BatchPositions # {}

\* ------------------------------------------------------------------------
\* C9: until the run executes its one save, the history file is as it was
\* when the run started; a run that ends by a missing-artifacts exit, by the
\* error of combining no frames, or by being killed has not saved.
\* ------------------------------------------------------------------------
C9_UntouchedBeforeSave ==
  /\ ~saved => summary_csv = start_summary
  /\ exit_status \in {ExitNoCsvFiles, ExitValueError, ExitKilled} => ~saved
  /\ saved => pc \in {"report", "exited"}

\* every artifact unreadable, a history with a "current" row: nothing written
C9_Witness ==
  /\ pc = "exited"
  /\ exit_status = ExitValueError
  /\ CurrentPlaces(Before) # {}
  /\ summary_csv = start_summary

\* ------------------------------------------------------------------------
\* C10: in every script that orders the rows by version, the sort key of the
\* tag "current" is strictly greater than the sort key of every
\* dotted-numeric version among the rows loaded, whatever its components.
\* ------------------------------------------------------------------------
C10_CurrentKeyGreatest ==
  report_pc = "loaded" =>
    \A i, j \in 1..Len(df) :
      (df[i].version = current /\ df[j].version \in NumericVersions)
        => VersionLess(df[j].version_key, df[i].version_key)


\* ------------------------------------------------------------------------
\* C21: when every file of ./collected is the finished artifact of one
\* platform (readable, one row tagged "current") and no two files are of
\* the same platform, then once the merge has saved, the history holds for
\* every such platform exactly one "current" row, and that row carries the
\* statistics of the platform's artifact.
\* ------------------------------------------------------------------------
\* every producer has finished its one-row artifact, one per platform
Serialized ==
  /\ collected # <<>>
  /\ \A i \in 1..Len(collected) :
       /\ collected[i].readable
       /\ Len(collected[i].rows) = 1
       /\ collected[i].rows[1].version = current
  /\ \A i, j \in 1..Len(collected) :
       StrStrip(collected[i].rows[1].os) = StrStrip(collected[j].rows[1].os) => i = j

CurrentPlacesOf(frame, os_name) ==
  {k \in CurrentPlaces(frame) : frame[k].os = os_name}

C21_OneCurrentRowPerPlatform ==
  (saved /\ Serialized) =>
    \A i \in 1..Len(collected) :
      LET made == NormRow(collected[i].rows[1])
      IN /\ Cardinality(CurrentPlacesOf(Persisted, made.os)) = 1
         /\ \A k \in CurrentPlacesOf(Persisted, made.os) : Persisted[k] = made

\* two platforms deposit; the history held another "current" row of one
C21_Witness ==
  /\ saved /\ Serialized
  /\ Len(collected) = 2
  /\ \E k \in CurrentPlaces(Before) :
       /\ StrStrip(Before[k].os) = StrStrip(collected[1].rows[1].os)
       /\ Before[k].stat # collected[1].rows[1].stat

\* the history as the merge computes it from the file it found and the batch
MergedRows ==
  StripOs(DropCurrent(Before) \o StripOs(PdConcat(ReadableFrames(collected))))

\* ------------------------------------------------------------------------
\* C23: the report step of a merge is reached only after the save; a report
\* script that fails ends the merge with a failure status while the history
\* file holds the merged rows; a report script that is absent ends the
\* merge with success.
\* ------------------------------------------------------------------------
C23_SaveThenReport ==
  /\ (pc = "report" \/ report_script # "unreached") =>
       (saved /\ summary_csv = [exists |-> TRUE, rows |-> MergedRows])
  /\ exit_status = ExitReportFailed =>
       (report_script = "ran" /\ saved /\ BatchRowSet \subseteq RowSet(Persisted))
  /\ report_script = "absent" => exit_status = ExitOk

\* the report fails after a save that changed the history
C23_Witness ==
  /\ exit_status = ExitReportFailed
  /\ report_script = "ran"
  /\ summary_csv # start_summary
  /\ BatchPositions # {}

\* ------------------------------------------------------------------------
\* C24: after a merge that ends with success, every file found under
\* ./collected has been read into the batch, and each of its rows is in the
\* persisted history.
\* ------------------------------------------------------------------------
C24_NoArtifactDropped ==
  (saved /\ exit_status = ExitOk) =>
    \A i \in 1..Len(collected) :
      /\ collected[i].readable
      /\ \A j \in 1..Len(collected[i].rows) :
           NormRow(collected[i].rows[j]) \in RowSet(Persisted)

\* ------------------------------------------------------------------------
\* Vocabulary of the properties of the views
\* ------------------------------------------------------------------------
\* the order of the version tags: the numeric ones by their components,
\* "current" after all of them
TagLess(a, b) ==
  /\ a # current
  /\ b = current \/ VersionLess(vparse(a), vparse(b))

\* the platforms of OS_ORDER that have rows in df
PlatformsWithRows == {n \in 1..Len(OS_ORDER) : SelectOs(df, OS_ORDER[n]) # <<>>}

\* C11: every trace of the time-series view lists the rows of its platform in
\* ascending order of version: numeric versions by their components, and
\* "current" last
C11_SeriesAscending ==
  report_pc = "written" =>
    \A n \in 1..Len(series) :
      \A i, j \in 1..Len(series[n]) :
        i < j => ~TagLess(series[n][j].version, series[n][i].version)

\* the tags reported that packaging does not parse
NoVersions == {V_abc}

HistoryHasTagIn(tags) ==
  /\ summary_csv.exists
  /\ \E i \in 1..Len(summary_csv.rows) : summary_csv.rows[i].version \in tags

\* C12 (as stated): a row whose version is neither dotted-numeric nor
\* "current" is rejected when its sort key is computed, so no loaded frame
\* and no view holds such a row
C12_OnlyDottedNumericLoaded ==
  /\ \A i \in 1..Len(df) : df[i].version \in NumericVersions \cup {current}
  /\ \A n \in 1..Len(series) : \A i \in 1..Len(series[n]) :
       series[n][i].version \in NumericVersions \cup {current}

\* C12 (amended): a history with a version that is no PEP 440 version and not
\* "current" makes every report script fail when the sort keys are computed:
\* no frame is loaded, no view is derived and no report is written
C12_NoVersionRejected ==
  (script # "none" /\ HistoryHasTagIn(NoVersions)) =>
    /\ report_pc = "failed"
    /\ df = <<>>
    /\ series = <<>>
    /\ latest = <<>>
    /\ ~report_html

C12_Witness ==
  /\ script = "generate_diagnostic_report"
  /\ HistoryHasTagIn(NoVersions)
  /\ HistoryHasTagIn(NumericVersions)
  /\ report_pc = "failed"

\* C13: in the latest-per-platform view every platform that has rows has one
\* row, and that row is, field for field, a row of the platform whose version
\* no other row of the platform exceeds ("current" exceeding every numeric
\* version)
C13_LatestIsMaximal ==
  report_pc = "written" =>
    \A n \in PlatformsWithRows :
      LET mine == SelectOs(df, OS_ORDER[n])
          shown == SelectOs(latest, OS_ORDER[n])
      IN /\ Len(shown) = 1
         /\ \E i \in 1..Len(mine) :
              /\ shown[1] = mine[i]
              /\ \A j \in 1..Len(mine) : ~TagLess(mine[i].version, mine[j].version)

\* C14: a report script leaves the persisted history as it found it, from
\* its start to its end, whether it fails or writes its report
C14_ReportsLeaveHistory == script # "none" => summary_csv = start_summary

C14_Witness ==
  /\ report_pc = "written"
  /\ report_html
  /\ summary_csv.exists
  /\ \E i \in 1..Len(summary_csv.rows) : summary_csv.rows[i].os = PaddedLinux
  /\ ~HasMeanError(summary_csv.rows)

\* mean_error = mean_distance - square_size_mm, exactly
ErrorIdentity(r) ==
  RatEq(r.stat.mean_error, RatMinus(r.stat.mean_distance, charuco_square_size))

\* C15: every row prepared for reporting, and every row shown in a trace,
\* satisfies mean_error = mean_distance - square_size_mm exactly, whether its
\* mean_error was read from the history (where the statistics of the run put
\* it) or computed by the report script
C15_MeanErrorIdentity ==
  /\ \A i \in 1..Len(df) : ErrorIdentity(df[i])
  /\ \A n \in 1..Len(series) : \A i \in 1..Len(series[n]) : ErrorIdentity(series[n][i])

\* C19: after a merge has saved, every row of the history has one of the
\* platform names Windows, macOS, Linux, without surrounding whitespace
C19_PlatformsCanonical ==
  saved => \A i \in 1..Len(Persisted) : Persisted[i].os \in {Windows, macOS, Linux}

\* the scripts whose load_summary_data searches the candidate paths
SearchingScripts == {"generate_calibration_report", "generate_diagnostic_report"}

\* every row of df is a row of the file, with its platform name trimmed
LoadedFrom(file) ==
  /\ df # <<>> <=> file.rows # <<>>
  /\ \A i \in 1..Len(df) :
       \E j \in 1..Len(file.rows) :
         /\ df[i].os = StrStrip(file.rows[j].os)
         /\ df[i].version = file.rows[j].version

\* ------------------------------------------------------------------------
\* C26: load_summary_data loads the first candidate path that exists: the
\* file of the first path when it exists, else the file of the second; when
\* no candidate exists the script ends with exit status 1, with no frame
\* loaded and no report file written.
\* ------------------------------------------------------------------------
C26_FirstExistingOrExit ==
  script \in SearchingScripts =>
    /\ (report_pc = "loaded" /\ summary_csv.exists) => LoadedFrom(summary_csv)
    /\ (report_pc = "loaded" /\ ~summary_csv.exists) => cwd_csv.exists
    /\ (~summary_csv.exists /\ cwd_csv.exists) => LoadedFrom(cwd_csv)
    /\ (~summary_csv.exists /\ ~cwd_csv.exists) =>
         (report_pc = "failed" /\ report_exit = 1 /\ df = <<>> /\ ~report_html)

\* both candidates exist with rows of different platforms: the first is loaded
C26_Witness ==
  /\ script \in SearchingScripts
  /\ report_pc = "loaded"
  /\ summary_csv.exists /\ cwd_csv.exists
  /\ summary_csv.rows[1].os # cwd_csv.rows[1].os
  /\ df[1].os = summary_csv.rows[1].os

\* ------------------------------------------------------------------------
\* C27: in the report of generate_diagnostic_report, for every platform that
\* has rows, the row of the latest-per-platform table is the last row of the
\* platform's trace in the time-series figure.
\* ------------------------------------------------------------------------
C27_LatestIsLastOfSeries ==
  (script = "generate_diagnostic_report" /\ report_pc = "written") =>
    \A n \in PlatformsWithRows :
      LET shown == SelectOs(latest, OS_ORDER[n])
          last == series[n][Len(series[n])]
      IN /\ Len(shown) = 1
         /\ shown[1].version = last.version
         /\ shown[1].stat = last.stat

\* ------------------------------------------------------------------------
\* C28: the frame that generate_diagnostic_report.load_summary_data returns
\* has no two rows of the same (os, version), os being the trimmed platform
\* name of the rows returned; of the rows of the file that share a key, the
\* last in the order of the file is the one returned.
\* ------------------------------------------------------------------------
C28_LoadedKeysUnique ==
  (script = "generate_diagnostic_report" /\ report_pc = "loaded") =>
    LET file == StripOs(FirstExisting(possible_paths).rows)
    IN /\ UniqueKeys(df)
       /\ \A i \in 1..Len(df) :
            \E j \in 1..Len(file) :
              /\ Key(file[j]) = Key(df[i])
              /\ file[j].stat.mean_distance = df[i].stat.mean_distance
              /\ \A k \in (j + 1)..Len(file) : Key(file[k]) # Key(df[i])

\* ------------------------------------------------------------------------
\* Vocabulary of the properties of the run records
\* ------------------------------------------------------------------------
\* w*(h-1) + h*(w-1)
MaxPairs == board.w * (board.h - 1) + board.h * (board.w - 1)

AppendedRows ==
  SelectSeq(master_csv.lines, LAMBDA line : line.kind = "row" /\ line.build = builds)

\* the run in progress has left a record of the file: a row in the buffer, a
\* row in summary.csv, or the one-row charuco_3d_stats.csv
HasRecord(parsed) ==
  \/ \E i \in 1..Len(summary_rows) :
       summary_rows[i].os = parsed.os /\ summary_rows[i].version = parsed.version
  \/ \E i \in 1..Len(AppendedRows) :
       AppendedRows[i].os = parsed.os /\ AppendedRows[i].version = parsed.version
  \/ <<parsed.os, parsed.version, "charuco_3d_stats.csv", builds>> \in run_files

\* C17: a run without any distance fails in the statistics and leaves no
\* record: run() writes no calib_row.csv, and build_calibration_dataset
\* neither writes the charuco_3d_stats.csv of the file nor adds a summary row
\* for it
C17_NoRecordWithoutDistances ==
  /\ (run_pc \in {"row", "done", "failed"} /\ distances = 0) =>
       (run_pc = "failed" /\ ~calib_row.exists)
  /\ \A i \in 1..file_no :
       LET parsed == parse_filename(calibration_folder[i].name)
       IN (parsed.ok /\ calibration_folder[i].detected = {}) => ~HasRecord(parsed)

C17_Witness ==
  /\ build_pc = "failed"
  /\ fault = "InsufficientDataError"
  /\ file_no = 2
  /\ Len(summary_rows) = 1
  /\ calibration_folder[2].detected = {}

\* C18: when writing an artifact of a run fails (the copy of the calibration
\* file, the 3-D array, the one-row statistics file), the statistics row of
\* the run is produced all the same: build_calibration_dataset has the row of
\* the file in its buffer, and run() does not end in the failure
C18_RecordSurvivesArtifactFailure ==
  /\ fault = "calib_row" => run_pc # "failed"
  /\ (/\ fault \in {"calibration.toml", "charuco_3d_xyz.npy", "charuco_3d_stats.csv"}
      /\ calibration_folder[file_no].detected # {}) =>
       \E i \in 1..Len(summary_rows) :
         LET parsed == parse_filename(calibration_folder[file_no].name)
         IN summary_rows[i].os = parsed.os /\ summary_rows[i].version = parsed.version

\* the rows of summary.csv
MasterRows == SelectSeq(master_csv.lines, LAMBDA line : line.kind = "row")

\* C20: whenever a run of build_calibration_dataset has ended, summary.csv
\* holds at most one row for each (OS, version)
C20_OneRowPerCalibration ==
  build_pc = "done" =>
    \A i, j \in 1..Len(MasterRows) :
      (MasterRows[i].os = MasterRows[j].os /\ MasterRows[i].version = MasterRows[j].version)
        => i = j

\* the names of the form calibration_<OS>_<version>.toml, version of three
\* numeric components, with the OS and the version they are built from
FormNames ==
  {[name |-> CalibrationName(os_name, version), os |-> os_name, version |-> version] :
     os_name \in {Linux, Windows, macOS}, version \in {V_1_0_0, V_1_9_0, V_1_10_0}}

\* C22: _parse_filename returns the OS and the version of every name of the
\* form calibration_<OS>_<version>.toml with three numeric components and
\* raises on every other name; a file whose name is not of the form ends the
\* run with ValueError, and every summary row, buffered or written, carries
\* the OS and the version of a name of the form
C22_RowsOnlyFromMatchingNames ==
  /\ \A i \in 1..file_no :
       LET name == calibration_folder[i].name
           parsed == parse_filename(name)
       IN /\ \A f \in FormNames :
               f.name = name => (parsed.ok /\ parsed.os = f.os /\ parsed.version = f.version)
          /\ (\A f \in FormNames : f.name # name) =>
               (~parsed.ok /\ i = file_no /\ build_pc = "failed" /\ fault = "ValueError")
  /\ \A i \in 1..Len(summary_rows) :
       \E j \in 1..file_no, f \in FormNames :
         /\ calibration_folder[j].name = f.name
         /\ summary_rows[i].os = f.os /\ summary_rows[i].version = f.version
  /\ \A i \in 1..Len(MasterRows) :
       \E f \in FormNames : MasterRows[i].os = f.os /\ MasterRows[i].version = f.version

\* a row of the first file is buffered, the second name has one component
C22_Witness ==
  /\ build_pc = "failed"
  /\ fault = "ValueError"
  /\ file_no = 2
  /\ calibration_folder[1].name = CalibrationName(Linux, V_1_0_0)
  /\ calibration_folder[2].name = CalibrationName(Linux, V_1)
  /\ Len(summary_rows) = 1
  /\ MasterRows # <<>>

\* C25: after any sequence of runs of build_calibration_dataset on an output
\* root, whenever summary.csv holds rows, its first line is the header with
\* the column names, and it holds no other header line
C25_HeaderOnceAndFirst ==
  MasterRows # <<>> =>
    /\ master_csv.lines[1].kind = "header"
    /\ master_csv.lines[1].columns
    /\ \A i \in 2..Len(master_csv.lines) : master_csv.lines[i].kind = "row"

\* the lines of summary.csv that the run in progress has written
AppendedLines ==
  SelectSeq(master_csv.lines, LAMBDA line : line.build = builds)

\* C29: a run of build_calibration_dataset writes to summary.csv only after
\* every calibration file has been processed: while the loop runs, and when
\* a file has failed, summary.csv holds no line of the run, whatever the
\* passes before the failure have written to their run folders
C29_SummaryAllOrNothing ==
  /\ build_pc \in {"loop", "failed"} => AppendedLines = <<>>
  /\ build_pc = "done" =>
       /\ file_no = Len(calibration_folder)
       /\ Len(AppendedRows) = Len(summary_rows)
       /\ Len(summary_rows) = Len(calibration_folder)

\* the second file fails after the first has left its files and its row in
\* the buffer; summary.csv holds the rows of an earlier run only
C29_Witness ==
  /\ build_pc = "failed"
  /\ file_no = 2
  /\ Len(summary_rows) = 1
  /\ <<summary_rows[1].os, summary_rows[1].version, "charuco_3d_stats.csv", builds>>
       \in run_files
  /\ MasterRows # <<>>
  /\ AppendedLines = <<>>

====
